---------------------------- MODULE Spec2Model ----------------------------
(***************************************************************************)
(* Nepal-Map-Visualizer (src/maincopy.py): a Streamlit script that is      *)
(* re-executed top to bottom on every interaction.  One step of the model  *)
(* is one execution of the script: upload handling (lines 74-94), the      *)
(* sidebar controls (96-166) and main() (168-314).                         *)
(*                                                                         *)
(* A Python str is a tuple of one-character strings, so that lower(),      *)
(* replace(), the numeric parse and the fuzzy score are computed and not   *)
(* assumed.  The build is part of the state: whether fuzzywuzzy is         *)
(* installed, and with which sequence matcher.  Geometry is reduced to the *)
(* number of polygon parts of each feature (a MultiPolygon yields one      *)
(* trace per part); coordinates, the marker jitter and the CSS are not     *)
(* modelled.                                                               *)
(***************************************************************************)
EXTENDS Integers, Sequences, FiniteSets, TLC

VARIABLES
    FUZZYWUZZY_AVAILABLE,   \* line 12-16: whether the import succeeded
    process,                \* line 13: the module fuzzywuzzy.process as imported
    uploaded_file,          \* the value of the file_uploader widget, line 63
    uploaded_files,         \* st.session_state.uploaded_files (insertion-ordered dict)
    map_view,               \* st.session_state.map_view
    province_visibility,    \* st.session_state.province_visibility
    province_colors,        \* st.session_state.province_colors
    show_district_borders,  \* sidebar checkbox, line 128
    show_province_borders,  \* sidebar checkbox, line 129
    color_by_province,      \* sidebar checkbox, line 130
    show_district_tooltip,  \* sidebar checkbox, line 160
    upload_result,          \* which branch of lines 74-94 the run took
    controls,               \* per layer, the control drawn at lines 114-123
    fig,                    \* traces added to the go.Figure by main(), in order
    warnings,               \* st.warning calls of main(), in order
    toasts,                 \* st.toast calls of get_match, in order
    status,                 \* "completed", or the exception that aborted main()
    extent                  \* the x/y range the displayed figure was given

vars == << FUZZYWUZZY_AVAILABLE, process, uploaded_file,
           uploaded_files, map_view, province_visibility, province_colors,
           show_district_borders, show_province_borders, color_by_province,
           show_district_tooltip, upload_result, controls, fig, warnings,
           toasts, status, extent >>

-----------------------------------------------------------------------------
(* Bounds of the model.                                                    *)

\* The registry holds at most this many layers (the code has no limit).
MaxLayers == 2

-----------------------------------------------------------------------------
(* Python strings.  The alphabet is printable ASCII, written as itself,    *)
(* and six named characters: the tab, which stands for the ASCII white     *)
(* space other than the blank (U+0009..U+000D); from the Latin-1 block     *)
(* the no-break space (U+00A0, white space), the degree sign (U+00B0,      *)
(* neither a letter nor white space), an upper- and a lower-case letter    *)
(* (U+00C9, U+00E9); and a caseless letter beyond Latin-1 (U+0915).  A     *)
(* printable ASCII character that is not a letter, a digit or the          *)
(* underscore is punctuation.                                              *)

None == <<"<None>">>

UpperChars == << "A","B","C","D","E","F","G","H","I","J","K","L","M",
                 "N","O","P","Q","R","S","T","U","V","W","X","Y","Z" >>
LowerChars == << "a","b","c","d","e","f","g","h","i","j","k","l","m",
                 "n","o","p","q","r","s","t","u","v","w","x","y","z" >>
DigitChars == << "0","1","2","3","4","5","6","7","8","9" >>
Latin1Upper == << "<E-acute>" >>
Latin1Lower == << "<e-acute>" >>
Latin1Other == << "<nbsp>", "<degree>" >>
OtherLetters == << "<ka>" >>

\* The white space of C's isspace in the "C" locale, and of str.isspace().
AsciiSpace == { " ", "<tab>" }
WhiteSpace == AsciiSpace \cup { "<nbsp>" }

\* The white space and the word characters in the order of their code points.
CodeOrder ==
    << "<tab>", " " >> \o DigitChars \o UpperChars \o << "_" >> \o LowerChars
    \o Latin1Other \o Latin1Upper \o Latin1Lower \o OtherLetters

IndexOf(seq, c) == CHOOSE i \in 1..Len(seq) : seq[i] = c
Has(seq, c) == \E i \in 1..Len(seq) : seq[i] = c

LowerChar(c) ==
    IF Has(UpperChars, c) THEN LowerChars[IndexOf(UpperChars, c)]
    ELSE IF Has(Latin1Upper, c) THEN Latin1Lower[IndexOf(Latin1Upper, c)]
    ELSE c

\* str.lower()
lower(s) == [i \in 1..Len(s) |-> LowerChar(s[i])]

\* str.replace(old, new) for a non-empty old: every occurrence, left to right.
RECURSIVE replace(_, _, _)
replace(s, old, new) ==
    IF Len(s) < Len(old) THEN s
    ELSE IF SubSeq(s, 1, Len(old)) = old
         THEN new \o replace(SubSeq(s, Len(old) + 1, Len(s)), old, new)
         ELSE <<s[1]>> \o replace(Tail(s), old, new)

\* str.lstrip(chars), str.rstrip(chars), str.strip(chars); str.strip() is
\* strip(s, WhiteSpace).
RECURSIVE lstrip(_, _)
lstrip(s, chars) ==
    IF Len(s) > 0 /\ s[1] \in chars THEN lstrip(Tail(s), chars) ELSE s

RECURSIVE rstrip(_, _)
rstrip(s, chars) ==
    IF Len(s) > 0 /\ s[Len(s)] \in chars
    THEN rstrip(SubSeq(s, 1, Len(s) - 1), chars)
    ELSE s

strip(s, chars) == rstrip(lstrip(s, chars), chars)

\* str.split(): the maximal runs of characters that are not white space.
RECURSIVE split(_, _, _)
split(s, word, acc) ==
    IF Len(s) = 0 THEN (IF Len(word) = 0 THEN acc ELSE Append(acc, word))
    ELSE IF s[1] \in WhiteSpace
         THEN split(Tail(s), <<>>, IF Len(word) = 0 THEN acc ELSE Append(acc, word))
         ELSE split(Tail(s), Append(word, s[1]), acc)

\* a < b for two strings, as Python compares them: by code points.
RECURSIVE StrLess(_, _)
StrLess(a, b) ==
    IF Len(b) = 0 THEN FALSE
    ELSE IF Len(a) = 0 THEN TRUE
    ELSE IF a[1] = b[1] THEN StrLess(Tail(a), Tail(b))
    ELSE IndexOf(CodeOrder, a[1]) < IndexOf(CodeOrder, b[1])

\* sorted(tokens) of a set of strings.
RECURSIVE sorted(_)
sorted(S) ==
    IF S = {} THEN <<>>
    ELSE LET least == CHOOSE x \in S : \A y \in S \ {x} : StrLess(x, y)
         IN  << least >> \o sorted(S \ {least})

\* The tokens in the order given by order, every token as often as it occurs.
RECURSIVE Repeated(_, _, _)
Repeated(order, tokens, k) ==
    IF k > Len(order) THEN <<>>
    ELSE SelectSeq(tokens, LAMBDA t : t = order[k]) \o Repeated(order, tokens, k + 1)

\* sorted(tokens) of a list of strings.
sorted_list(tokens) ==
    Repeated(sorted({ tokens[i] : i \in 1..Len(tokens) }), tokens, 1)

\* " ".join(tokens)
RECURSIVE join(_)
join(tokens) ==
    IF Len(tokens) = 0 THEN <<>>
    ELSE IF Len(tokens) = 1 THEN tokens[1]
    ELSE tokens[1] \o << " " >> \o join(Tail(tokens))

Max(a, b) == IF a >= b THEN a ELSE b
Min(a, b) == IF a <= b THEN a ELSE b

\* int(round(num / den)) for num >= 0, den > 0: Python 3 rounds a tie to even.
intr(num, den) ==
    LET q == num \div den
        r == num % den
    IN  IF 2 * r < den THEN q
        ELSE IF 2 * r > den THEN q + 1
        ELSE IF q % 2 = 0 THEN q ELSE q + 1

-----------------------------------------------------------------------------
(* Numbers.  A cell is the text read_csv found in the file; cells that     *)
(* read_csv takes as missing (empty, NA, nan, ...) and boolean columns are *)
(* not among the files below.  A number is m * 10^e or an infinity.  The   *)
(* range of a double is kept (beyond it the parser fails, below it the     *)
(* value is 0); its rounding is not: a cell has at most nine significant   *)
(* digits and a subnormal value keeps them all.                            *)

NaN == [ok |-> FALSE, inf |-> 0, m |-> 0, e |-> 0]

Finite(m, e) == [ok |-> TRUE, inf |-> 0, m |-> m, e |-> e]
Infinity(sign) == [ok |-> TRUE, inf |-> sign, m |-> 0, e |-> 0]

RECURSIVE Pow10(_)
Pow10(k) == IF k = 0 THEN 1 ELSE 10 * Pow10(k - 1)

\* m * 10^e without trailing zeros in m, so that equal numbers are equal records.
RECURSIVE Normal(_, _)
Normal(m, e) ==
    IF m = 0 THEN Finite(0, 0)
    ELSE IF m % 10 = 0 THEN Normal(m \div 10, e + 1)
    ELSE Finite(m, e)

RECURSIVE DigitsValue(_, _)
DigitsValue(s, acc) ==
    IF Len(s) = 0 THEN acc
    ELSE DigitsValue(Tail(s), 10 * acc + (IndexOf(DigitChars, s[1]) - 1))

\* Every character is a decimal digit (true of the empty string).
AllDigits(s) == \A i \in 1..Len(s) : Has(DigitChars, s[i])

\* The position of the first character of s that is in chars, or 0.
FirstOf(s, chars) ==
    IF \E i \in 1..Len(s) : s[i] \in chars
    THEN CHOOSE i \in 1..Len(s) :
             s[i] \in chars /\ \A k \in 1..(i - 1) : s[k] \notin chars
    ELSE 0

\* The sign in front of a decimal, and what follows the sign.
Sign(t) == IF Len(t) > 0 /\ t[1] = "-" THEN -1 ELSE 1
Unsign(t) == IF Len(t) > 0 /\ t[1] \in {"+", "-"} THEN Tail(t) ELSE t

\* The digits and the power of ten as written: the integer digits ip, the
\* fraction digits fp and, with has_exp, the exponent expo (a sign and
\* digits); NaN when a part is malformed or the mantissa has no digit.
DecimalValue(ip, fp, has_exp, expo) ==
    IF /\ Len(ip) + Len(fp) > 0
       /\ AllDigits(ip) /\ AllDigits(fp)
       /\ has_exp => (Len(Unsign(expo)) > 0 /\ AllDigits(Unsign(expo)))
    THEN Finite(DigitsValue(ip \o fp, 0),
                Sign(expo) * DigitsValue(Unsign(expo), 0) - Len(fp))
    ELSE NaN

\* body cut at its first point (position dot) and its first e/E (position
\* epos); 0 stands for "none".  A point behind the e/E is left in the exponent.
SplitDecimal(body, dot, epos) ==
    LET mend == IF epos = 0 THEN Len(body) ELSE epos - 1
        d    == IF dot = 0 \/ dot > mend THEN mend + 1 ELSE dot
    IN  DecimalValue(SubSeq(body, 1, d - 1), SubSeq(body, d + 1, mend), epos # 0,
                     IF epos = 0 THEN <<>> ELSE SubSeq(body, epos + 1, Len(body)))

\* An unsigned decimal: digits with at most one point and at least one digit,
\* then an optional exponent e/E, sign, digits.
Unsigned(body) == SplitDecimal(body, FirstOf(body, {"."}), FirstOf(body, {"e", "E"}))

\* The number of decimal digits of m > 0.
RECURSIVE NumDigits(_)
NumDigits(m) == IF m < 10 THEN 1 ELSE 1 + NumDigits(m \div 10)

\* The first ten digits of the largest double, 1.7976931348623157e308.
MaxDouble == 1797693134

\* m * 10^e, m > 0, is beyond the largest double.
Overflows(m, e) ==
    \/ NumDigits(m) + e - 1 > 308
    \/ /\ NumDigits(m) + e - 1 = 308
       /\ m > MaxDouble \div Pow10(10 - NumDigits(m))

\* pandas' precise_xstrtod on the digits u = m * 10^e as written: it fails
\* (ERANGE) on an exponent above 308 and on a product that is infinite, and
\* gives 0 far below the smallest double.
precise_xstrtod(u) ==
    IF ~u.ok \/ u.e > 308 THEN NaN
    ELSE IF u.m = 0 THEN Finite(0, 0)
    ELSE IF Overflows(u.m, u.e) THEN NaN
    ELSE IF NumDigits(u.m) + u.e - 1 < -324 THEN Finite(0, 0)
    ELSE Normal(u.m, u.e)

WithSign(sign, u) == IF u.ok THEN Normal(sign * u.m, u.e) ELSE NaN

\* pandas' to_double: the white space around the number is skipped, then a
\* sign and an unsigned decimal, up to the end of the cell.
to_double(t) == WithSign(Sign(t), precise_xstrtod(Unsigned(Unsign(t))))

\* pandas' floatify: the number d found by to_double or, when there is
\* none, the cell itself compared with inf and infinity, signed or not, in
\* any case.
floatify(s, d) ==
    IF d.ok THEN d
    ELSE IF lower(Unsign(s)) \in { <<"i","n","f">>,
                                    <<"i","n","f","i","n","i","t","y">> }
    THEN Infinity(Sign(s))
    ELSE NaN

\* pd.to_numeric(errors='coerce') of one cell.
to_numeric(s) == floatify(s, to_double(strip(s, AsciiSpace)))

\* s without the underscores that stand between two digits.
RECURSIVE DropDigitUnderscores(_, _)
DropDigitUnderscores(s, i) ==
    IF i > Len(s) THEN <<>>
    ELSE IF /\ s[i] = "_" /\ 1 < i /\ i < Len(s)
            /\ Has(DigitChars, s[i - 1]) /\ Has(DigitChars, s[i + 1])
         THEN DropDigitUnderscores(s, i + 1)
         ELSE << s[i] >> \o DropDigitUnderscores(s, i + 1)

\* Whether float(item_value) of line 281 succeeds: behind the white space
\* and the underscores, a sign, then inf, infinity or nan in any case, or an
\* unsigned decimal of any size.
float_ok(s) ==
    LET t == Unsign(DropDigitUnderscores(strip(s, WhiteSpace), 1))
    IN  \/ lower(t) \in { <<"i","n","f">>, <<"i","n","f","i","n","i","t","y">>,
                          <<"n","a","n">> }
        \/ Unsigned(t).ok

\* a <= b for two numbers.
NumLeq(a, b) ==
    IF a.inf # 0 \/ b.inf # 0
    THEN a.inf = -1 \/ b.inf = 1
    ELSE LET k == Min(a.e, b.e)
         IN  a.m * Pow10(a.e - k) <= b.m * Pow10(b.e - k)

-----------------------------------------------------------------------------
(* fuzzywuzzy 0.18, as process.extractOne(loc, choices) uses it with its   *)
(* defaults (utils.full_process, fuzz.WRatio).  Its SequenceMatcher is the *)
(* one of python-Levenshtein 0.12 when that package is installed (line 11  *)
(* asks for it, line 13 does not need it) and difflib's otherwise: lev is   *)
(* TRUE for the first, FALSE for the second.  Strings stay below 200       *)
(* characters (difflib's autojunk).                                        *)

\* \w of the regular expression (?ui)\W.
IsWord(c) ==
    \/ Has(UpperChars, c) \/ Has(LowerChars, c) \/ Has(DigitChars, c) \/ c = "_"
    \/ Has(Latin1Upper, c) \/ Has(Latin1Lower, c) \/ Has(OtherLetters, c)

\* utils.asciionly: the characters U+0080..U+00FF are deleted.
asciionly(s) ==
    SelectSeq(s, LAMBDA c : ~(\/ Has(Latin1Upper, c) \/ Has(Latin1Lower, c)
                              \/ Has(Latin1Other, c)))

\* utils.full_process: non-word characters to spaces, lower case, strip.
full_process(s, force_ascii) ==
    LET t == IF force_ascii THEN asciionly(s) ELSE s
    IN  strip([i \in 1..Len(t) |-> IF IsWord(t[i]) THEN LowerChar(t[i]) ELSE " "],
              WhiteSpace)

\* What extractWithoutOrder hands to the scorer.  The query goes through the
\* processor (full_process) and the pre-processor of WRatio (full_process
\* with force_ascii); a choice goes through the pre-processor only, the
\* processor being no_process for it.
processed_query(query) == full_process(full_process(query, FALSE), TRUE)
processed(choice) == full_process(choice, TRUE)

\* difflib: the length of the match of a[i..] and b[j..] below ahi and bhi
\* (positions count from 0).
RECURSIVE MatchLen(_, _, _, _, _, _)
MatchLen(a, b, i, j, ahi, bhi) ==
    IF i < ahi /\ j < bhi /\ a[i + 1] = b[j + 1]
    THEN 1 + MatchLen(a, b, i + 1, j + 1, ahi, bhi)
    ELSE 0

\* SequenceMatcher.find_longest_match: the longest block, the earliest in a
\* among the longest, the earliest in b among those.
find_longest_match(a, b, alo, ahi, blo, bhi) ==
    LET C == { [i |-> i, j |-> j, k |-> MatchLen(a, b, i, j, ahi, bhi)] :
                 i \in alo..(ahi - 1), j \in blo..(bhi - 1) }
    IN  IF C = {} THEN [i |-> alo, j |-> blo, k |-> 0]
        ELSE CHOOSE x \in C :
                \A y \in C : \/ x.k > y.k
                             \/ x.k = y.k /\ x.i < y.i
                             \/ x.k = y.k /\ x.i = y.i /\ x.j <= y.j

\* SequenceMatcher.get_matching_blocks of difflib, without the final block.
RECURSIVE difflib_blocks(_, _, _, _, _, _)
difflib_blocks(a, b, alo, ahi, blo, bhi) ==
    LET x == find_longest_match(a, b, alo, ahi, blo, bhi)
    IN  IF x.k = 0 THEN {}
        ELSE difflib_blocks(a, b, alo, x.i, blo, x.j)
             \cup { x }
             \cup difflib_blocks(a, b, x.i + x.k, ahi, x.j + x.k, bhi)

RECURSIVE SumK(_)
SumK(B) ==
    IF B = {} THEN 0 ELSE LET x == CHOOSE y \in B : TRUE IN x.k + SumK(B \ {x})

\* One row of the longest-common-subsequence table.
RECURSIVE LcsRow(_, _, _, _)
LcsRow(ch, b, prev, acc) ==
    IF Len(acc) = Len(b) THEN acc
    ELSE LET j    == Len(acc) + 1
             left == IF j = 1 THEN 0 ELSE acc[j - 1]
             diag == IF j = 1 THEN 0 ELSE prev[j - 1]
             v    == IF ch = b[j] THEN diag + 1 ELSE Max(prev[j], left)
         IN  LcsRow(ch, b, prev, Append(acc, v))

\* The last row of the table; each row is complete before the next is begun.
RECURSIVE LcsRows(_, _, _, _)
LcsRows(a, b, i, prev) ==
    IF i > Len(a) THEN prev
    ELSE LET row == LcsRow(a[i], b, prev, <<>>)
         IN  IF Len(row) = Len(b) THEN LcsRows(a, b, i + 1, row) ELSE <<>>

LCS(a, b) ==
    IF Len(b) = 0 THEN 0
    ELSE LcsRows(a, b, 1, [j \in 1..Len(b) |-> 0])[Len(b)]

\* Levenshtein: one row of the edit-distance table (insert, delete, replace
\* cost 1); acc starts with the cell of column 0.
RECURSIVE LevRow(_, _, _, _)
LevRow(ch, b, prev, acc) ==
    IF Len(acc) = Len(b) + 1 THEN acc
    ELSE LET j == Len(acc)
             c == prev[j] + (IF ch = b[j] THEN 0 ELSE 1)
         IN  LevRow(ch, b, prev, Append(acc, Min(c, Min(prev[j + 1] + 1, acc[j] + 1))))

\* The table: rows[i + 1][j + 1] is the distance of a[..i] and b[..j].
RECURSIVE LevRows(_, _, _)
LevRows(a, b, rows) ==
    IF Len(rows) = Len(a) + 1 THEN rows
    ELSE LevRows(a, b, Append(rows, LevRow(a[Len(rows)], b, rows[Len(rows)],
                                           << Len(rows) >>)))

\* editops_from_cost_matrix: the walk back from the last cell; the result is
\* the set of j - i of the characters it keeps.
RECURSIVE lev_keeps(_, _, _, _, _, _)
lev_keeps(a, b, D, i, j, dir) ==
    LET here == D[i + 1][j + 1] IN
    IF i = 0 /\ j = 0 THEN {}
    ELSE IF dir < 0 /\ j > 0 /\ here = D[i + 1][j] + 1
    THEN lev_keeps(a, b, D, i, j - 1, dir)
    ELSE IF dir > 0 /\ i > 0 /\ here = D[i][j + 1] + 1
    THEN lev_keeps(a, b, D, i - 1, j, dir)
    ELSE IF i > 0 /\ j > 0 /\ here = D[i][j] /\ a[i] = b[j]
    THEN { j - i } \cup lev_keeps(a, b, D, i - 1, j - 1, 0)
    ELSE IF i > 0 /\ j > 0 /\ here = D[i][j] + 1
    THEN lev_keeps(a, b, D, i - 1, j - 1, 0)
    ELSE IF dir = 0 /\ j > 0 /\ here = D[i + 1][j] + 1
    THEN lev_keeps(a, b, D, i, j - 1, -1)
    ELSE lev_keeps(a, b, D, i - 1, j, 1)

RECURSIVE CommonPrefix(_, _)
CommonPrefix(a, b) ==
    IF Len(a) > 0 /\ Len(b) > 0 /\ a[1] = b[1]
    THEN 1 + CommonPrefix(Tail(a), Tail(b)) ELSE 0

RECURSIVE CommonSuffix(_, _)
CommonSuffix(a, b) ==
    IF Len(a) > 0 /\ Len(b) > 0 /\ a[Len(a)] = b[Len(b)]
    THEN 1 + CommonSuffix(SubSeq(a, 1, Len(a) - 1), SubSeq(b, 1, Len(b) - 1))
    ELSE 0

\* block[1] - block[0] of every block of get_matching_blocks(), the final
\* block (len(a), len(b), 0) included.
diagonals(lev, a, b) ==
    { Len(b) - Len(a) } \cup
    IF lev
    THEN LET p  == CommonPrefix(a, b)
             a0 == SubSeq(a, p + 1, Len(a))
             b0 == SubSeq(b, p + 1, Len(b))
             q  == CommonSuffix(a0, b0)
             a1 == SubSeq(a0, 1, Len(a0) - q)
             b1 == SubSeq(b0, 1, Len(b0) - q)
             D  == LevRows(a1, b1, << [j \in 1..(Len(b1) + 1) |-> j - 1] >>)
         IN  (IF p > 0 THEN { 0 } ELSE {})
             \cup lev_keeps(a1, b1, D, Len(a1), Len(b1), 0)
    ELSE { x.j - x.i : x \in difflib_blocks(a, b, 0, Len(a), 0, Len(b)) }

\* The number of matched characters behind SequenceMatcher.ratio().
matches(lev, a, b) ==
    IF lev THEN LCS(a, b) ELSE SumK(difflib_blocks(a, b, 0, Len(a), 0, Len(b)))

\* int(round(100 * (2.0 * M / T))): the float product is below the tie at
\* M/T = 23/80 and rounds as the exact quotient for every other T <= 200.
score(M, T) == IF 80 * M = 23 * T THEN 57 ELSE intr(200 * M, T)

\* fuzz.ratio
ratio(lev, s1, s2) ==
    IF s1 = s2 THEN 100
    ELSE IF Len(s1) = 0 \/ Len(s2) = 0 THEN 0
    ELSE score(matches(lev, s1, s2), Len(s1) + Len(s2))

\* fuzz.partial_ratio
partial_ratio(lev, s1, s2) ==
    IF s1 = s2 THEN 100
    ELSE IF Len(s1) = 0 \/ Len(s2) = 0 THEN 0
    ELSE LET shorter == IF Len(s1) <= Len(s2) THEN s1 ELSE s2
             longer  == IF Len(s1) <= Len(s2) THEN s2 ELSE s1
             subs == { SubSeq(longer, Max(d, 0) + 1,
                              Min(Max(d, 0) + Len(shorter), Len(longer))) :
                         d \in diagonals(lev, shorter, longer) }
             R == { [M |-> matches(lev, shorter, x), T |-> Len(shorter) + Len(x)] :
                         x \in subs }
         IN  IF \E r \in R : 2000 * r.M > 995 * r.T THEN 100
             ELSE LET S == { score(r.M, r.T) : r \in R }
                  IN  CHOOSE v \in S : \A w \in S : v >= w

\* fuzz._process_and_sort without the processing
process_and_sort(s) ==
    strip(join(sorted_list(split(s, <<>>, <<>>))), WhiteSpace)

\* fuzz._token_sort with full_process=False
token_sort(lev, s1, s2, partial) ==
    IF partial THEN partial_ratio(lev, process_and_sort(s1), process_and_sort(s2))
    ELSE ratio(lev, process_and_sort(s1), process_and_sort(s2))

Tokens(s) == LET t == split(s, <<>>, <<>>) IN { t[i] : i \in 1..Len(t) }

Max3(a, b, c) == Max(a, Max(b, c))

\* fuzz._token_set with full_process=False
token_set(lev, p1, p2, partial) ==
    IF p1 = p2 THEN 100
    ELSE IF Len(p1) = 0 \/ Len(p2) = 0 THEN 0
    ELSE LET sect == join(sorted(Tokens(p1) \cap Tokens(p2)))
             d12  == join(sorted(Tokens(p1) \ Tokens(p2)))
             d21  == join(sorted(Tokens(p2) \ Tokens(p1)))
             c12  == strip(sect \o << " " >> \o d12, WhiteSpace)
             c21  == strip(sect \o << " " >> \o d21, WhiteSpace)
         IN  IF partial
             THEN Max3(partial_ratio(lev, sect, c12), partial_ratio(lev, sect, c21),
                       partial_ratio(lev, c12, c21))
             ELSE Max3(ratio(lev, sect, c12), ratio(lev, sect, c21),
                       ratio(lev, c12, c21))

\* fuzz.WRatio with full_process=False.  The scaled scores are rounded one by
\* one: rounding is monotone, and for scores 0..100 the float products round
\* as the exact ones.
WRatio(lev, p1, p2) ==
    IF Len(p1) = 0 \/ Len(p2) = 0 THEN 0
    ELSE LET base  == ratio(lev, p1, p2)
             long  == Max(Len(p1), Len(p2))
             short == Min(Len(p1), Len(p2))
             partial_scale == IF long > 8 * short THEN 60 ELSE 90
         IN  IF 2 * long < 3 * short
             THEN Max3(base,
                       intr(95 * token_sort(lev, p1, p2, FALSE), 100),
                       intr(95 * token_set(lev, p1, p2, FALSE), 100))
             ELSE Max(Max(base, intr(partial_scale * partial_ratio(lev, p1, p2), 100)),
                      Max(intr(95 * partial_scale * token_sort(lev, p1, p2, TRUE),
                               10000),
                          intr(95 * partial_scale * token_set(lev, p1, p2, TRUE),
                               10000)))

\* process.extractOne: the first choice of the highest score, with the score.
RECURSIVE extractOne(_, _, _, _, _)
extractOne(lev, query, choices, i, best) ==
    IF i > Len(choices) THEN best
    ELSE LET s == WRatio(lev, processed_query(query), processed(choices[i]))
         IN  extractOne(lev, query, choices, i + 1,
                        IF best.score = -1 \/ s > best.score
                        THEN [match |-> choices[i], score |-> s]
                        ELSE best)

MatchThreshold == 80

-----------------------------------------------------------------------------
(* The boundary files geo_data/*.geojson, read at lines 176-181: two       *)
(* districts (one of them a MultiPolygon of two parts), two provinces and  *)
(* their dissolved outer boundary.                                         *)

Kathmandu == <<"K","a","t","h","m","a","n","d","u">>
Pokhara == <<"P","o","k","h","a","r","a">>

districts_gdf == << [name |-> Kathmandu, parts |-> 1],
                    [name |-> Pokhara,   parts |-> 2] >>

provinces_gdf == << [name |-> <<"B","a","g","m","a","t","i">>, parts |-> 1],
                    [name |-> <<"G","a","n","d","a","k","i">>, parts |-> 2] >>

nepal_border_gdf == << [name |-> <<"N","e","p","a","l">>, parts |-> 1] >>

\* [min(lons), max(lons)], [min(lats), max(lats)] of the outer boundary.
NationalExtent == [x |-> <<80, 88>>, y |-> <<26, 30>>]

official_districts == [i \in 1..Len(districts_gdf) |-> districts_gdf[i].name]

icons == << "pin", "star", "mountain", "museum", "park", "tree", "hotel",
            "xmas_tree", "house", "station", "wave" >>

default_prov_colors == << "#636EFA", "#EF553B", "#00CC96", "#AB63FA",
                          "#FFA15A", "#19D3F3", "#FF6692" >>

-----------------------------------------------------------------------------
(* The CSV files a user may upload: what pd.read_csv returns for each      *)
(* (columns and rows of cells), or that it raises.                         *)

Location == <<"L","o","c","a","t","i","o","n">>

PopCsv ==
    [name |-> <<"p","o","p",".","c","s","v">>, readable |-> TRUE,
     columns |-> << Location, <<"P","o","p","_","C","o","u","n","t">> >>,
     rows |-> << << Kathmandu, <<"1","2","0">> >>,
                 << <<"K","a","t","m","a","n","d","u">>, <<"9","5">> >> >>]

MixCsv ==
    [name |-> <<"m","i","x",".","c","s","v">>, readable |-> TRUE,
     columns |-> << Location, <<"K","i","n","d">> >>,
     rows |-> << << Pokhara, <<"7",".","5">> >>, << Kathmandu, <<"+","1","2">> >>,
                 << Kathmandu, <<"9">> >>,
                 << <<"P","o","k","h","e","r","a">>, <<"l","a","k","e">> >> >>]

\* Three numeric files with infinite cells, which read_csv and to_numeric
\* take as numbers: both infinities, the negative one, the positive one.
InfCsv ==
    [name |-> <<"i","n","f",".","c","s","v">>, readable |-> TRUE,
     columns |-> << Location, <<"V","a","l">> >>,
     rows |-> << << Kathmandu, <<"-","i","n","f">> >>, << Kathmandu, <<"5">> >>,
                 << Pokhara, <<"i","n","f">> >> >>]

LowCsv ==
    [name |-> <<"l","o","w",".","c","s","v">>, readable |-> TRUE,
     columns |-> << Location, <<"V","a","l">> >>,
     rows |-> << << Kathmandu, <<"-","i","n","f">> >>, << Kathmandu, <<"3">> >>,
                 << Pokhara, <<"8">> >> >>]

HighCsv ==
    [name |-> <<"h","i","g","h",".","c","s","v">>, readable |-> TRUE,
     columns |-> << Location, <<"V","a","l">> >>,
     rows |-> << << Kathmandu, <<"3">> >>, << Kathmandu, <<"8">> >>,
                 << Pokhara, <<"i","n","f">> >> >>]

BadCsv ==
    [name |-> <<"b","a","d",".","c","s","v">>, readable |-> TRUE,
     columns |-> << <<"L","o","c">>, <<"V","a","l">> >>,
     rows |-> << << Kathmandu, <<"5">> >> >>]

NoneCsv ==
    [name |-> <<"n","o","n","e",".","c","s","v">>, readable |-> TRUE,
     columns |-> << Location, <<"V","a","l">> >>,
     rows |-> << << <<"B","i","r","a","t","n","a","g","a","r">>, <<"3">> >> >>]

OnlyCsv ==
    [name |-> <<"o","n","l","y",".","c","s","v">>, readable |-> TRUE,
     columns |-> << Location >>,
     rows |-> << << Kathmandu >> >>]

\* A second file named pop.csv, with other rows.  The label of its second
\* row scores 67 against Pokhara with difflib and 80 with python-Levenshtein.
PopCsvEdited ==
    [name |-> <<"p","o","p",".","c","s","v">>, readable |-> TRUE,
     columns |-> << Location, <<"P","o","p","_","C","o","u","n","t">> >>,
     rows |-> << << Pokhara, <<"4","0">> >>,
                 << <<"p","k","h","r","a","r","h","a">>, <<"1","e","3">> >> >>]

BrokenCsv ==
    [name |-> <<"b","r","o","k","e","n",".","c","s","v">>, readable |-> FALSE,
     columns |-> << >>, rows |-> << >>]

Files ==
    { PopCsv, PopCsvEdited, MixCsv, InfCsv, LowCsv, HighCsv, BadCsv, NoneCsv,
      OnlyCsv, BrokenCsv }

\* Every cell of every file, and the cells of the first column (the labels).
CellPool ==
    UNION { UNION { { f.rows[r][c] : c \in 1..Len(f.columns) } :
                    r \in 1..Len(f.rows) } : f \in Files }

LabelPool == UNION { { f.rows[r][1] : r \in 1..Len(f.rows) } : f \in Files }

-----------------------------------------------------------------------------
(* Line 13 binds process to the module the import found, and lines 204-210 *)
(* call its extractOne.  The variable process holds that function over the *)
(* labels of the files: process[loc] is the (match, score) returned by     *)
(* process.extractOne(loc, official_districts).                            *)

\* fuzzywuzzy.process as imported with the matcher lev.
process_module(lev) ==
    [loc \in LabelPool |->
        extractOne(lev, loc, official_districts, 1, [match |-> None, score |-> -1])]

\* The name process is not bound when the import failed.
NotImported == <<>>

\* Lines 204-210.  get_match returns the official name or None; the toast
\* of line 208 is collected by LayerToasts below.
get_match(loc) ==
    IF process[loc].score >= MatchThreshold THEN process[loc].match ELSE None

\* pd.to_numeric and float() of every cell, evaluated once.
NumericOf == [c \in CellPool |-> to_numeric(c)]
FloatOk == [c \in CellPool |-> float_ok(c)]

-----------------------------------------------------------------------------
(* DataFrame access.                                                       *)

HasColumn(df, col) == Has(df.columns, col)
Cell(df, r, col) == df.rows[r][IndexOf(df.columns, col)]
RowIndex(df) == [r \in 1..Len(df.rows) |-> r]

\* pd.to_numeric(series, errors='coerce').notna().all() over the given rows.
is_numeric(df, col, rowseq) ==
    \A k \in 1..Len(rowseq) : NumericOf[Cell(df, rowseq[k], col)].ok

-----------------------------------------------------------------------------
(* Upload handling, lines 74-94.                                           *)

Names(reg) == { reg[i].name : i \in 1..Len(reg) }

\* Line 79: the first column whose lower-cased name is not 'location'.
value_column_of(columns) ==
    LET others == { i \in 1..Len(columns) :
                      lower(columns[i]) # <<"l","o","c","a","t","i","o","n">> }
    IN  IF others = {} THEN None
        ELSE columns[CHOOSE i \in others : \A j \in others : i <= j]

\* Python truthiness of "value_column".
Truthy(s) == s # None /\ Len(s) > 0

\* Lines 81-90.
NewLayer(f, value_column) ==
    [name            |-> f.name,
     data            |-> [columns |-> f.columns, rows |-> f.rows],
     value_column    |-> value_column,
     visible         |-> TRUE,
     color           |-> "#FF4500",
     tooltip_visible |-> TRUE,
     display_name    |-> replace(f.name, <<".","c","s","v">>, <<>>),
     tooltip_label   |-> replace(value_column, <<"_">>, <<" ">>),
     icon            |-> "park"]

\* The uploader is empty: uploaded_file is None.
NoFile == [name |-> None, readable |-> FALSE, columns |-> <<>>, rows |-> <<>>]

\* Upload handling without the guard of line 76: a registered name is read
\* again and its entry overwritten.
UploadHandling_overwrite(reg, file) ==
    IF file = NoFile
    THEN [files |-> reg, result |-> "no_file"]
    ELSE IF ~file.readable
    THEN [files |-> reg, result |-> "error_failed_to_read"]
    ELSE LET value_column == value_column_of(file.columns)
             new == NewLayer(file, value_column)
         IN  IF ~Truthy(value_column)
             THEN [files |-> reg, result |-> "error_no_data_column"]
             ELSE IF file.name \in Names(reg)
             THEN [files  |-> [i \in 1..Len(reg) |->
                                 IF reg[i].name = file.name
                                 THEN new ELSE reg[i]],
                   result |-> "already_registered"]
             ELSE [files |-> Append(reg, new), result |-> "added"]

\* Lines 74-94: the registry after the upload and the branch taken.
\* file is the value of the uploader: a file of Files, or NoFile.
UploadHandling(reg, file) ==
    IF file = NoFile
    THEN [files |-> reg, result |-> "no_file"]
    ELSE IF file.name \in Names(reg)
    THEN [files |-> reg, result |-> "already_registered"]
    ELSE IF ~file.readable
    THEN [files |-> reg, result |-> "error_failed_to_read"]
    ELSE LET value_column == value_column_of(file.columns)
         IN  IF Truthy(value_column)
             THEN [files  |-> Append(reg, NewLayer(file, value_column)),
                   result |-> "added"]
             ELSE [files |-> reg, result |-> "error_no_data_column"]

-----------------------------------------------------------------------------
(* Sidebar, lines 96-166.  A widget returns its stored value unless the    *)
(* user changed it in this run: edit names the layer (or the province) and *)
(* the field changed, with the value the widget now returns (NoEdit: no    *)
(* widget was changed).                                                    *)

NoEdit == [layer |-> 0, field |-> "none", value |-> FALSE]

\* What the user types into a text input, picks in a colour picker and
\* selects in the icon selector.
TextPool == { <<"C","e","n","s","u","s">> }
ColorPool == { "#0000FF" }
IconPool == { "pin", "park" }

\* Lines 101-123 and 165-166: the per-layer settings written back.  The
\* colour picker exists for a layer whose value column is numeric over all
\* of its rows, the icon selector for the others.
LayerControls(reg, edit) ==
    [i \in 1..Len(reg) |->
        LET numeric == is_numeric(reg[i].data, reg[i].value_column,
                                  RowIndex(reg[i].data))
        IN  IF edit.layer # i THEN reg[i]
            ELSE IF edit.field = "display_name"
            THEN [reg[i] EXCEPT !.display_name = edit.value]
            ELSE IF edit.field = "tooltip_label"
            THEN [reg[i] EXCEPT !.tooltip_label = edit.value]
            ELSE IF edit.field = "visible"
            THEN [reg[i] EXCEPT !.visible = edit.value]
            ELSE IF edit.field = "color" /\ numeric
            THEN [reg[i] EXCEPT !.color = edit.value]
            ELSE IF edit.field = "icon" /\ ~numeric
            THEN [reg[i] EXCEPT !.icon = edit.value]
            ELSE IF edit.field = "tooltip_visible"
            THEN [reg[i] EXCEPT !.tooltip_visible = edit.value]
            ELSE reg[i]]

\* Lines 107, 114-123: the control shown for each layer, chosen by
\* is_numeric over ALL rows of the layer's value column.
SidebarControls(reg) ==
    [i \in 1..Len(reg) |->
        IF is_numeric(reg[i].data, reg[i].value_column, RowIndex(reg[i].data))
        THEN "color_picker" ELSE "selectbox"]

\* Lines 131-148: with "Color by Province" on, every province gets a
\* visibility entry (default True, or the checkbox value).
ProvinceVisibilityControls(cbp, pv, edit) ==
    IF ~cbp THEN pv
    ELSE [idx \in 0..(Len(provinces_gdf) - 1) |->
             IF edit.field = "province_visible" /\ edit.layer = idx
             THEN edit.value
             ELSE IF idx \in DOMAIN pv THEN pv[idx] ELSE TRUE]

\* Line 150: the colour picker of every province.
ProvinceColorControls(cbp, pc, edit) ==
    IF ~cbp THEN pc
    ELSE [idx \in 0..(Len(provinces_gdf) - 1) |->
             IF edit.field = "province_color" /\ edit.layer = idx
             THEN edit.value
             ELSE IF idx \in DOMAIN pc THEN pc[idx]
             ELSE default_prov_colors[(idx % Len(default_prov_colors)) + 1]]

-----------------------------------------------------------------------------
(* main(), lines 168-314: the traces added to the figure.                  *)

RECURSIVE Flatten(_)
Flatten(ss) == IF Len(ss) = 0 THEN <<>> ELSE Head(ss) \o Flatten(Tail(ss))

NoT == <<>>

\* One go.Scatter trace.  row is the DataFrame index of the uploaded row the
\* trace was drawn for (-1: none); t is the intensity as <<num, den>>.
Trace(kind, group, layer, feature, part, row, t, color, icon, text) ==
    [kind |-> kind, group |-> group, layer |-> layer, feature |-> feature,
     part |-> part, row |-> row, t |-> t, color |-> color, icon |-> icon,
     text |-> text]

\* Lines 184-192: one filled polygon per part of every visible province.
ProvinceFills(cbp, pv, pc) ==
    IF ~cbp THEN <<>>
    ELSE Flatten([k \in 1..Len(provinces_gdf) |->
            LET i     == k - 1
                shown == IF i \in DOMAIN pv THEN pv[i] ELSE TRUE
                color == IF i \in DOMAIN pc THEN pc[i] ELSE "#CCCCCC"
            IN  IF ~shown THEN <<>>
                ELSE [p \in 1..provinces_gdf[k].parts |->
                        Trace("FilledPolygon", "province_fill", None,
                              provinces_gdf[k].name, p, -1, NoT, color, "", <<>>)]])

\* Line 200: the layer is drawn only with a 'Location' column and a value column.
Drawable(layer) ==
    HasColumn(layer.data, Location) /\ Truthy(layer.value_column)

\* Lines 202-214: the column pd.merge joins on, for row r.
merge_key(layer, r, fuzzy) ==
    IF fuzzy THEN get_match(Cell(layer.data, r, Location))
    ELSE Cell(layer.data, r, Location)

\* Line 216: the inner join, in the order of the districts and, within a
\* district, of the uploaded rows.
user_data_gdf(layer, fuzzy) ==
    Flatten([d \in 1..Len(districts_gdf) |->
        LET hit == SelectSeq(RowIndex(layer.data),
                      LAMBDA r : merge_key(layer, r, fuzzy) = districts_gdf[d].name)
        IN  [k \in 1..Len(hit) |-> [d |-> d, r |-> hit[k]]]])

\* x as a multiple of 10^k.
Scaled(x, k) == x.m * Pow10(x.e - k)

\* The intensity nan, as a fraction.
nan == << 0, 0 >>

\* np.interp(v, [min_val, max_val], [0, 1]) for min_val < max_val and
\* min_val <= v <= max_val, as the fraction << numerator, denominator >>.
\* Between the ends NumPy computes slope * (v - min_val) + 0 with slope =
\* 1 / (max_val - min_val) and, when that is nan, slope * (v - max_val) + 1.
\* With an infinite end the slope is 0: the first is 0 for a finite min_val
\* and nan (0 * inf) for an infinite one, the second is 1 for a finite
\* max_val and nan for an infinite one.
interp(v, min_val, max_val) ==
    IF v = min_val THEN << 0, 1 >>
    ELSE IF v = max_val THEN << 1, 1 >>
    ELSE IF min_val.inf # 0 /\ max_val.inf # 0 THEN nan
    ELSE IF max_val.inf # 0 THEN << 0, 1 >>
    ELSE IF min_val.inf # 0 THEN << 1, 1 >>
    ELSE LET k == Min(v.e, Min(min_val.e, max_val.e))
         IN  << Scaled(v, k) - Scaled(min_val, k),
                Scaled(max_val, k) - Scaled(min_val, k) >>

\* Line 228.
normalized_val(v, min_val, max_val) ==
    IF min_val # max_val THEN interp(v, min_val, max_val) ELSE << 1, 2 >>

\* Line 223: the value of a joined row, as a number.
JoinedValue(layer, j) == NumericOf[Cell(layer.data, j.r, layer.value_column)]

\* Lines 224-233: the choropleth polygons of a numeric layer.
NumericTraces(layer, joined) ==
    LET vals    == { JoinedValue(layer, joined[k]) : k \in 1..Len(joined) }
        min_val == CHOOSE v \in vals : \A w \in vals : NumLeq(v, w)
        max_val == CHOOSE v \in vals : \A w \in vals : NumLeq(w, v)
    IN  Flatten([k \in 1..Len(joined) |->
            LET j == joined[k]
                t == normalized_val(JoinedValue(layer, j), min_val, max_val)
            IN  [p \in 1..districts_gdf[j.d].parts |->
                    Trace("FilledPolygon", "layer", layer.name,
                          districts_gdf[j.d].name, p, j.r - 1, t,
                          layer.color, "", <<>>)]])

\* Lines 234-246: one text marker per joined row of a categorical layer.
MarkerTraces(layer, joined) ==
    [k \in 1..Len(joined) |->
        Trace("TextMarker", "layer", layer.name, districts_gdf[joined[k].d].name,
              1, joined[k].r - 1, NoT, layer.color, layer.icon, <<>>)]

\* Lines 196-246 for one layer.
LayerTraces(layer, fuzzy) ==
    IF ~layer.visible \/ ~Drawable(layer) THEN <<>>
    ELSE LET joined == user_data_gdf(layer, fuzzy)
         IN  IF Len(joined) = 0 THEN <<>>
             ELSE IF is_numeric(layer.data, layer.value_column,
                                [k \in 1..Len(joined) |-> joined[k].r])
             THEN NumericTraces(layer, joined)
             ELSE MarkerTraces(layer, joined)

\* Lines 218-220: the warning of a visible layer whose join is empty.
LayerWarnings(layer, fuzzy) ==
    IF layer.visible /\ Drawable(layer) /\ Len(user_data_gdf(layer, fuzzy)) = 0
    THEN << [layer |-> layer.name, display_name |-> layer.display_name] >>
    ELSE <<>>

\* Lines 206-208: the toast of every row matched to a different spelling.
LayerToasts(layer, fuzzy) ==
    IF ~(fuzzy /\ layer.visible /\ Drawable(layer)) THEN <<>>
    ELSE LET corrected ==
                SelectSeq(RowIndex(layer.data),
                    LAMBDA r : /\ get_match(Cell(layer.data, r, Location)) # None
                               /\ get_match(Cell(layer.data, r, Location))
                                      # Cell(layer.data, r, Location))
         IN  [k \in 1..Len(corrected) |->
                [loc   |-> Cell(layer.data, corrected[k], Location),
                 match |-> get_match(Cell(layer.data, corrected[k], Location))]]

\* Line 230: sample_colorscale raises ValueError for the intensity nan (it
\* converts the sampled colour, nan in every channel, to integers).  The
\* position in reg of the first layer for which it does, or 0.
HasNan(traces) == \E k \in 1..Len(traces) : traces[k].t = nan

FirstTrue(flags) ==
    IF \A i \in 1..Len(flags) : ~flags[i] THEN 0
    ELSE CHOOSE i \in 1..Len(flags) : flags[i] /\ \A j \in 1..(i - 1) : ~flags[j]

sample_colorscale_raises(reg, fuzzy) ==
    FirstTrue([i \in 1..Len(reg) |-> HasNan(LayerTraces(reg[i], fuzzy))])

\* The traces added before the first one whose colour cannot be sampled.
RECURSIVE UntilRaise(_)
UntilRaise(traces) ==
    IF Len(traces) = 0 \/ Head(traces).t = nan THEN <<>>
    ELSE << Head(traces) >> \o UntilRaise(Tail(traces))

\* Lines 195-246: every layer, in the order of the registry, up to the
\* exception of line 230 if there is one.
DataLayerTraces(reg, fuzzy) ==
    UntilRaise(Flatten([i \in 1..Len(reg) |-> LayerTraces(reg[i], fuzzy)]))

\* Lines 248-251.
add_border_trace(feature, group, line_color) ==
    [p \in 1..feature.parts |->
        Trace("Outline", group, None, feature.name, p, -1, NoT, line_color, "", <<>>)]

\* Lines 253-257.
BorderTraces(sdb, spb) ==
    (IF sdb
     THEN Flatten([d \in 1..Len(districts_gdf) |->
                     add_border_trace(districts_gdf[d], "district_border", "dimgray")])
     ELSE <<>>)
    \o
    (IF spb
     THEN Flatten([k \in 1..Len(provinces_gdf) |->
                     add_border_trace(provinces_gdf[k], "province_border", "black")])
     ELSE <<>>)
    \o
    Flatten([k \in 1..Len(nepal_border_gdf) |->
                add_border_trace(nepal_border_gdf[k], "national_border", "black")])

\* Line 269: the rows whose 'Location' cell equals the district name.
items_in_district(layer, district_name) ==
    SelectSeq(RowIndex(layer.data),
              LAMBDA r : Cell(layer.data, r, Location) = district_name)

\* Lines 270-284: the hover lines of one layer for one district.  chr is the
\* code point 97 + i, i being the DataFrame index of the row.
LayerTextParts(layer, district_name) ==
    LET items == items_in_district(layer, district_name)
    IN  IF Len(items) = 0 THEN <<>>
        ELSE IF Len(items) > 1
        THEN << [kind |-> "header", layer |-> layer.name,
                 label |-> layer.tooltip_label, chr |-> 0, value |-> <<>>] >>
             \o [k \in 1..Len(items) |->
                    [kind |-> "item", layer |-> layer.name,
                     label |-> layer.tooltip_label, chr |-> 97 + (items[k] - 1),
                     value |-> Cell(layer.data, items[k], layer.value_column)]]
        ELSE LET item_value == Cell(layer.data, items[1], layer.value_column)
             IN  << [kind  |-> IF FloatOk[item_value]
                               THEN "single_numeric" ELSE "single_text",
                     layer |-> layer.name, label |-> layer.tooltip_label,
                     chr |-> 0, value |-> item_value] >>

\* Lines 260-284: the text_parts of one district.
TextParts(reg, sdt, district_name) ==
    (IF sdt
     THEN << [kind |-> "district", layer |-> None, label |-> <<>>, chr |-> 0,
              value |-> district_name] >>
     ELSE <<>>)
    \o
    Flatten([i \in 1..Len(reg) |->
                IF reg[i].tooltip_visible
                THEN LayerTextParts(reg[i], district_name) ELSE <<>>])

\* Line 269 raises KeyError('Location') for a tooltip-enabled layer whose
\* table has no such column, on the first district.
HoverRaises(reg) ==
    /\ Len(districts_gdf) > 0
    /\ \E i \in 1..Len(reg) :
           reg[i].tooltip_visible /\ ~HasColumn(reg[i].data, Location)

\* Lines 259-291: one invisible hover polygon per part of every district
\* whose text_parts is not empty.
HoverTraces(reg, sdt) ==
    Flatten([d \in 1..Len(districts_gdf) |->
        LET text_parts == TextParts(reg, sdt, districts_gdf[d].name)
        IN  IF Len(text_parts) = 0 THEN <<>>
            ELSE [p \in 1..districts_gdf[d].parts |->
                    Trace("HoverRegion", "hover", None, districts_gdf[d].name, p,
                          -1, NoT, "rgba(0,0,0,0)", "", text_parts)]])

\* The borders drawn before the data layers.
DrawnTraces_borders_first(st, reg, fuzzy, sdb, spb, cbp, pv, pc) ==
    ProvinceFills(cbp, pv, pc)
    \o (IF st = "ValueError" THEN <<>> ELSE BorderTraces(sdb, spb))
    \o DataLayerTraces(reg, fuzzy)

\* Lines 184-257: the traces drawn before the hover regions; the borders
\* are not reached when line 230 raised.
DrawnTraces(st, reg, fuzzy, sdb, spb, cbp, pv, pc) ==
    ProvinceFills(cbp, pv, pc) \o DataLayerTraces(reg, fuzzy)
    \o (IF st = "ValueError" THEN <<>> ELSE BorderTraces(sdb, spb))

\* Line 299: a stored view is used when it is non-empty and has 'xaxis.range'.
ViewStored(view) == DOMAIN view # {} /\ "xaxis.range" \in DOMAIN view

NoExtent == [x |-> <<>>, y |-> <<>>]

\* What st.plotly_chart returns at line 305: called without on_select, it
\* returns the placeholder of the chart element, which is not a dict, and
\* panning or zooming the chart does not run the script again.
NoEvent == [is_dict |-> FALSE, has_relayout |-> FALSE, relayoutData |-> <<>>]

\* Lines 307-308: the view state after st.plotly_chart returned event_data.
StoreView(view, event_data) ==
    IF /\ event_data.is_dict
       /\ event_data.has_relayout
       /\ "xaxis.range" \in DOMAIN event_data.relayoutData
    THEN event_data.relayoutData
    ELSE view

\* main(), lines 168-314, output by output.  An exception leaves main at the
\* handler of line 312: the figure built so far is not displayed and the view
\* state is not written.

\* How main() ends: lines 230, 269 and 300 are the statements that can raise.
main_status(reg, fuzzy, view) ==
    IF sample_colorscale_raises(reg, fuzzy) # 0 THEN "ValueError"
    ELSE IF HoverRaises(reg) THEN "KeyError: 'Location'"
    ELSE IF ViewStored(view) /\ "yaxis.range" \notin DOMAIN view
    THEN "KeyError: 'yaxis.range'"
    ELSE "completed"

\* Lines 170-291: the traces added to fig, in the order of the add_trace calls.
main_fig(st, reg, fuzzy, sdb, spb, cbp, pv, pc, sdt) ==
    DrawnTraces(st, reg, fuzzy, sdb, spb, cbp, pv, pc)
    \o (IF st \in { "ValueError", "KeyError: 'Location'" } THEN <<>>
        ELSE HoverTraces(reg, sdt))

\* Lines 218-220: the st.warning calls of the run.  The loop of line 195
\* stops at layer number raised when line 230 raises there (0: nowhere).
main_warnings(reg, fuzzy, raised) ==
    Flatten([i \in 1..Len(reg) |->
                IF raised = 0 \/ i <= raised
                THEN LayerWarnings(reg[i], fuzzy) ELSE <<>>])

\* Lines 206-208: the st.toast calls of the run.
main_toasts(reg, fuzzy, raised) ==
    Flatten([i \in 1..Len(reg) |->
                IF raised = 0 \/ i <= raised
                THEN LayerToasts(reg[i], fuzzy) ELSE <<>>])

\* Lines 299-303: the axis ranges given to update_layout.
main_extent(st, view) ==
    IF st # "completed" THEN NoExtent
    ELSE IF ViewStored(view)
    THEN [x |-> view["xaxis.range"], y |-> view["yaxis.range"]]
    ELSE NationalExtent

\* Lines 305-308: st.session_state.map_view after the run.
main_map_view(st, view) ==
    IF st = "completed" THEN StoreView(view, NoEvent) ELSE view

-----------------------------------------------------------------------------
(* One execution of the script.                                            *)

ScriptRun(file, edit, sdb, spb, cbp, sdt) ==
    /\ uploaded_file' = file
    /\ uploaded_files' =
           LayerControls(UploadHandling(uploaded_files, file).files, edit)
    /\ Len(uploaded_files') <= MaxLayers
    /\ upload_result' = UploadHandling(uploaded_files, file).result
    /\ controls' = SidebarControls(uploaded_files')
    /\ province_visibility' =
           ProvinceVisibilityControls(cbp, province_visibility, edit)
    /\ province_colors' = ProvinceColorControls(cbp, province_colors, edit)
    /\ show_district_borders' = sdb
    /\ show_province_borders' = spb
    /\ color_by_province' = cbp
    /\ show_district_tooltip' = sdt
    /\ status' = main_status(uploaded_files', FUZZYWUZZY_AVAILABLE, map_view)
    /\ fig' = main_fig(status', uploaded_files', FUZZYWUZZY_AVAILABLE, sdb, spb,
                       cbp, province_visibility', province_colors', sdt)
    /\ warnings' =
           main_warnings(uploaded_files', FUZZYWUZZY_AVAILABLE,
               sample_colorscale_raises(uploaded_files', FUZZYWUZZY_AVAILABLE))
    /\ toasts' =
           main_toasts(uploaded_files', FUZZYWUZZY_AVAILABLE,
               sample_colorscale_raises(uploaded_files', FUZZYWUZZY_AVAILABLE))
    /\ extent' = main_extent(status', map_view)
    /\ map_view' = main_map_view(status', map_view)
    /\ UNCHANGED << FUZZYWUZZY_AVAILABLE, process >>

\* The first execution, when the page is opened: the import of lines 12-16,
\* lines 29-36 and the widget defaults of lines 128-130 and 160.
Init ==
    /\ FUZZYWUZZY_AVAILABLE \in BOOLEAN
    /\ process \in IF FUZZYWUZZY_AVAILABLE
                    THEN { process_module(lev) : lev \in BOOLEAN }
                    ELSE { NotImported }
    /\ uploaded_file = NoFile
    /\ uploaded_files = <<>>
    /\ province_visibility = <<>>
    /\ province_colors = <<>>
    /\ show_district_borders = TRUE
    /\ show_province_borders = TRUE
    /\ color_by_province = FALSE
    /\ show_district_tooltip = TRUE
    /\ upload_result = "no_file"
    /\ controls = <<>>
    /\ status = main_status(uploaded_files, FUZZYWUZZY_AVAILABLE, <<>>)
    /\ fig = main_fig(status, uploaded_files, FUZZYWUZZY_AVAILABLE,
                      show_district_borders,
                      show_province_borders, color_by_province,
                      province_visibility, province_colors, show_district_tooltip)
    /\ warnings = main_warnings(uploaded_files, FUZZYWUZZY_AVAILABLE, 0)
    /\ toasts = main_toasts(uploaded_files, FUZZYWUZZY_AVAILABLE, 0)
    /\ extent = main_extent(status, <<>>)
    /\ map_view = main_map_view(status, <<>>)

\* A run in which the user changed the widget named by edit.
Rerun(edit) ==
    ScriptRun(uploaded_file, edit, show_district_borders, show_province_borders,
              color_by_province, show_district_tooltip)

\* The user puts file f into the uploader (line 63).
Upload(f) ==
    ScriptRun(f, NoEdit, show_district_borders, show_province_borders,
              color_by_province, show_district_tooltip)

\* The user removes the file from the uploader: it returns None.
ClearUpload ==
    /\ uploaded_file # NoFile
    /\ Upload(NoFile)

\* The user types another "Layer Name" for a layer (line 104).
LayerName ==
    \E i \in 1..Len(uploaded_files) : \E text \in TextPool :
        /\ text # uploaded_files[i].display_name
        /\ Rerun([layer |-> i, field |-> "display_name", value |-> text])

\* The user types another "Tooltip Label" for a layer (line 105).
LayerLabel ==
    \E i \in 1..Len(uploaded_files) : \E text \in TextPool :
        /\ text # uploaded_files[i].tooltip_label
        /\ Rerun([layer |-> i, field |-> "tooltip_label", value |-> text])

\* The user flips "Show Layer" of a layer (line 111).
LayerVisibility ==
    \E i \in 1..Len(uploaded_files) :
        Rerun([layer |-> i, field |-> "visible",
               value |-> ~uploaded_files[i].visible])

\* The user picks another colour for a numeric layer (line 115).
LayerColor ==
    \E i \in 1..Len(uploaded_files) : \E color \in ColorPool :
        /\ controls[i] = "color_picker"
        /\ color # uploaded_files[i].color
        /\ Rerun([layer |-> i, field |-> "color", value |-> color])

\* The user selects another icon for a categorical layer (line 117).
LayerIcon ==
    \E i \in 1..Len(uploaded_files) : \E icon \in IconPool :
        /\ controls[i] = "selectbox"
        /\ icon # uploaded_files[i].icon
        /\ Rerun([layer |-> i, field |-> "icon", value |-> icon])

\* The user flips the tooltip checkbox of a layer (line 166).
LayerTooltip ==
    \E i \in 1..Len(uploaded_files) :
        Rerun([layer |-> i, field |-> "tooltip_visible",
               value |-> ~uploaded_files[i].tooltip_visible])

\* Lines 128-130 and 160: the base-layer and tooltip checkboxes.
ToggleDistrictBorders ==
    ScriptRun(uploaded_file, NoEdit, ~show_district_borders, show_province_borders,
              color_by_province, show_district_tooltip)

ToggleProvinceBorders ==
    ScriptRun(uploaded_file, NoEdit, show_district_borders, ~show_province_borders,
              color_by_province, show_district_tooltip)

ToggleColorByProvince ==
    ScriptRun(uploaded_file, NoEdit, show_district_borders, show_province_borders,
              ~color_by_province, show_district_tooltip)

ToggleDistrictTooltip ==
    ScriptRun(uploaded_file, NoEdit, show_district_borders, show_province_borders,
              color_by_province, ~show_district_tooltip)

\* Line 144: the visibility checkbox of a province, shown while "Color by
\* Province" is on.
ProvinceVisibility ==
    \E idx \in 0..(Len(provinces_gdf) - 1) :
        /\ color_by_province
        /\ idx \in DOMAIN province_visibility
        /\ Rerun([layer |-> idx, field |-> "province_visible",
                  value |-> ~province_visibility[idx]])

\* Line 150: the colour picker of a province, shown while "Color by
\* Province" is on.
ProvinceColor ==
    \E idx \in 0..(Len(provinces_gdf) - 1) : \E color \in ColorPool :
        /\ color_by_province
        /\ idx \in DOMAIN province_colors
        /\ color # province_colors[idx]
        /\ Rerun([layer |-> idx, field |-> "province_color", value |-> color])

UploadAny == \E f \in Files : Upload(f)

\* Every interaction.
Next ==
    \/ UploadAny
    \/ ClearUpload
    \/ LayerName
    \/ LayerLabel
    \/ LayerVisibility
    \/ LayerColor
    \/ LayerIcon
    \/ LayerTooltip
    \/ ToggleDistrictBorders
    \/ ToggleProvinceBorders
    \/ ToggleColorByProvince
    \/ ToggleDistrictTooltip
    \/ ProvinceVisibility
    \/ ProvinceColor

Spec == Init /\ [][Next]_vars

(* The reachable states of Spec are too many to enumerate with these files; *)
(* the claims are checked under four specifications with the same Init and  *)
(* the same actions, in each of which the user keeps to a group of widgets  *)
(* and of files.  Every action of Next is in one of them.                   *)

\* SpecBase: two data layers and the base-layer controls.
UploadBase == \E f \in { PopCsv, MixCsv } : Upload(f)

NextBase ==
    \/ UploadBase
    \/ LayerVisibility
    \/ ToggleDistrictBorders
    \/ ToggleProvinceBorders
    \/ ToggleColorByProvince
    \/ ProvinceVisibility
    \/ ProvinceColor

SpecBase == Init /\ [][NextBase]_vars

\* SpecMatch: uploads of every file and the "Show Layer" checkboxes.
NextMatch ==
    \/ UploadAny
    \/ ClearUpload
    \/ LayerVisibility

SpecMatch == Init /\ [][NextMatch]_vars

\* SpecSettings: uploads under two file names, one of them with two
\* contents, and the settings of the layers.
SettingsFiles == { PopCsv, PopCsvEdited, MixCsv }
UploadSettings == \E f \in SettingsFiles : Upload(f)

NextSettings ==
    \/ UploadSettings
    \/ ClearUpload
    \/ LayerName
    \/ LayerLabel
    \/ LayerVisibility
    \/ LayerColor
    \/ LayerIcon

SpecSettings == Init /\ [][NextSettings]_vars

\* SpecLayers: uploads of every file, the per-layer checkboxes and the
\* district tooltip checkbox.
NextLayers ==
    \/ UploadAny
    \/ ClearUpload
    \/ LayerVisibility
    \/ LayerTooltip
    \/ ToggleDistrictTooltip

SpecLayers == Init /\ [][NextLayers]_vars

-----------------------------------------------------------------------------
(* Properties.                                                             *)

Range(f) == { f[i] : i \in DOMAIN f }

\* The position of a draw group in the order of the add_trace calls.
Rank(group) ==
    CASE group = "province_fill"   -> 1
      [] group = "layer"           -> 2
      [] group = "district_border" -> 3
      [] group = "province_border" -> 4
      [] group = "national_border" -> 5
      [] group = "hover"           -> 6

\* The position of the layer called name in the registry.
LayerPos(name) ==
    CHOOSE i \in 1..Len(uploaded_files) : uploaded_files[i].name = name

GroupOf(group) == { i \in 1..Len(fig) : fig[i].group = group }

LayerTracesOf(name) ==
    { i \in 1..Len(fig) : fig[i].group = "layer" /\ fig[i].layer = name }

\* C1: in every render that completes the traces stand in draw order:
\* province fills (only with color-by-province), the traces of the visible
\* layers in registration order, district outlines (exactly when district
\* borders are on), province outlines (exactly when province borders are on),
\* the national outline (always), then the hover regions; no trace of a later
\* group precedes a trace of an earlier group.
C1_DrawOrder ==
    status = "completed" =>
        /\ \A i, j \in 1..Len(fig) :
              i < j => Rank(fig[i].group) <= Rank(fig[j].group)
        /\ \A i, j \in GroupOf("layer") :
              i < j => LayerPos(fig[i].layer) <= LayerPos(fig[j].layer)
        /\ \A i \in GroupOf("layer") :
              \E k \in 1..Len(uploaded_files) :
                  uploaded_files[k].name = fig[i].layer /\ uploaded_files[k].visible
        /\ GroupOf("province_fill") # {} => color_by_province
        /\ GroupOf("district_border") # {} <=> show_district_borders
        /\ GroupOf("province_border") # {} <=> show_province_borders
        /\ GroupOf("national_border") # {}

\* C1 witness: a completed render showing province fills, the traces of two
\* layers, the three kinds of outline and hover regions.
C1_Witness ==
    /\ status = "completed"
    /\ GroupOf("province_fill") # {}
    /\ \E i, j \in GroupOf("layer") : fig[i].layer # fig[j].layer
    /\ GroupOf("district_border") # {}
    /\ GroupOf("province_border") # {}
    /\ GroupOf("national_border") # {}
    /\ GroupOf("hover") # {}

\* The rows of layer whose label is, character for character, an official
\* district name.
ExactRows(layer) ==
    { r \in 1..Len(layer.data.rows) :
        Cell(layer.data, r, Location) \in Range(official_districts) }

\* C5: every row of a visible layer whose label equals an official district
\* name is matched to that district and has a trace on that district, with
\* fuzzy matching available or not.
C5_ExactLabelMatched ==
    \A k \in 1..Len(uploaded_files) :
        LET layer == uploaded_files[k]
        IN  (layer.visible /\ Drawable(layer)) =>
                \A r \in ExactRows(layer) :
                    \E i \in LayerTracesOf(layer.name) :
                        /\ fig[i].row = r - 1
                        /\ fig[i].feature = Cell(layer.data, r, Location)

\* The rows of layer that the matcher resolves to a district.
MatchedRows(layer) ==
    { r \in 1..Len(layer.data.rows) :
        merge_key(layer, r, FUZZYWUZZY_AVAILABLE) \in Range(official_districts) }

ValueOfRow(layer, r) == NumericOf[Cell(layer.data, r, layer.value_column)]

\* The choropleth polygons of layer in the figure.
FilledOf(layer) ==
    { i \in LayerTracesOf(layer.name) : fig[i].kind = "FilledPolygon" }

MinOf(S) == CHOOSE v \in S : \A w \in S : NumLeq(v, w)
MaxOf(S) == CHOOSE v \in S : \A w \in S : NumLeq(w, v)

\* main() draws the layer as a choropleth: it is visible, has its two
\* columns, some row is matched and the matched rows hold numbers.
NumericLayer(layer) ==
    /\ layer.visible /\ Drawable(layer)
    /\ MatchedRows(layer) # {}
    /\ \A r \in MatchedRows(layer) : ValueOfRow(layer, r).ok

\* Every matched row has a polygon, and the intensity t = num/den of every
\* polygon lies in [0,1] and is monotone in the value of its row.
IntensityBoundedMonotone(layer) ==
    /\ \A r \in MatchedRows(layer) :
          \E i \in FilledOf(layer) : fig[i].row = r - 1
    /\ \A i \in FilledOf(layer) :
          fig[i].t[2] > 0 /\ 0 <= fig[i].t[1] /\ fig[i].t[1] <= fig[i].t[2]
    /\ \A i, j \in FilledOf(layer) :
          NumLeq(ValueOfRow(layer, fig[i].row + 1),
                 ValueOfRow(layer, fig[j].row + 1))
              => fig[i].t[1] * fig[j].t[2] <= fig[j].t[1] * fig[i].t[2]

\* The polygons of the rows holding the minimum have t = 0 and those of the
\* rows holding the maximum have t = 1, both taken over the matched rows.
EndpointsZeroOne(layer) ==
    LET vals == { ValueOfRow(layer, r) : r \in MatchedRows(layer) }
    IN  \A i \in FilledOf(layer) :
           /\ ValueOfRow(layer, fig[i].row + 1) = MinOf(vals) => fig[i].t[1] = 0
           /\ ValueOfRow(layer, fig[i].row + 1) = MaxOf(vals)
                  => fig[i].t[1] = fig[i].t[2]

\* C6: in every numeric layer whose matched rows hold at least two
\* different values, every matched row gets an intensity t, the rows with
\* the minimum get t = 0, the rows with the maximum get t = 1, every t lies
\* in [0,1] and t is monotone in the value.  (The layers whose matched rows
\* hold a single value get the fixed 0.5 of line 228 and are left out: for
\* them the minimum is the maximum.)
C6_Intensity ==
    \A k \in 1..Len(uploaded_files) :
        LET layer == uploaded_files[k]
            vals  == { ValueOfRow(layer, r) : r \in MatchedRows(layer) }
        IN  (NumericLayer(layer) /\ Cardinality(vals) >= 2) =>
                IntensityBoundedMonotone(layer) /\ EndpointsZeroOne(layer)

\* C10: after any uploads and setting edits, uploading a file whose name is
\* already registered leaves the registry as it was: same layers, same
\* order, same data, value column and settings.
C10_ReuploadKeepsRegistry ==
    [][ \A f \in SettingsFiles :
          (f.name \in Names(uploaded_files) /\ Upload(f))
              => uploaded_files' = uploaded_files ]_vars

\* C10 witness: the uploader holds a second pop.csv with other rows while the
\* registry holds two layers, the first upload of pop.csv among them with its
\* own rows, with "Show Layer" switched off and with a name, a tooltip label
\* and a colour the user has set.
C10_Witness ==
    /\ uploaded_file = PopCsvEdited
    /\ upload_result = "already_registered"
    /\ Len(uploaded_files) = 2
    /\ \E k \in 1..Len(uploaded_files) :
          /\ uploaded_files[k].name = PopCsv.name
          /\ uploaded_files[k].data.rows = PopCsv.rows
          /\ ~uploaded_files[k].visible
          /\ uploaded_files[k].display_name \in TextPool
          /\ uploaded_files[k].tooltip_label \in TextPool
          /\ uploaded_files[k].color \in ColorPool

\* The warnings of the run that name the layer called name.
WarningsOf(name) == { i \in 1..Len(warnings) : warnings[i].layer = name }

\* No row of the layer is resolved to a district.
NoRowMatched(layer) ==
    ~HasColumn(layer.data, Location) \/ MatchedRows(layer) = {}

\* C2: for every visible registered layer none of whose rows matches a
\* district, the render completes, holds no trace of that layer and holds
\* exactly one warning for it.
C2_ZeroMatchWarned ==
    \A k \in 1..Len(uploaded_files) :
        LET layer == uploaded_files[k]
        IN  (layer.visible /\ NoRowMatched(layer)) =>
                /\ status = "completed"
                /\ LayerTracesOf(layer.name) = {}
                /\ Cardinality(WarningsOf(layer.name)) = 1

\* C3: a file without a column named Location is never registered: every
\* registered layer has that column, and the run that received such a file
\* reports an error.
C3_NoLocationRejected ==
    /\ \A k \in 1..Len(uploaded_files) :
          HasColumn(uploaded_files[k].data, Location)
    /\ (uploaded_file # NoFile /\ ~Has(uploaded_file.columns, Location))
           => upload_result \in {"error_no_data_column", "error_failed_to_read"}

\* The hover text_parts shown for the district called name: those of its
\* hover regions, or none when it has no hover region.
HoverPartsOf(name) ==
    UNION { Range(fig[i].text) :
              i \in { j \in GroupOf("hover") : fig[j].feature = name } }

\* C4: in a completed render, for every district and every tooltip-enabled
\* layer, the value of every row that the matcher resolved to the district
\* is among the district's hover lines of that layer.
C4_HoverListsMatchedRows ==
    status = "completed" =>
        \A d \in 1..Len(districts_gdf) :
            \A k \in 1..Len(uploaded_files) :
                LET layer == uploaded_files[k]
                IN  (layer.tooltip_visible /\ HasColumn(layer.data, Location)) =>
                        \A r \in MatchedRows(layer) :
                            merge_key(layer, r, FUZZYWUZZY_AVAILABLE)
                                    = districts_gdf[d].name
                            => \E part \in HoverPartsOf(districts_gdf[d].name) :
                                  /\ part.layer = layer.name
                                  /\ part.value =
                                       Cell(layer.data, r, layer.value_column)

\* C7: a render that starts from a stored view completes and shows exactly
\* the stored x and y ranges, and a render that starts with no view stored
\* shows the national extent.
C7_ViewRoundTrip ==
    [][ /\ ViewStored(map_view) =>
              /\ status' = "completed"
              /\ extent'.x = map_view["xaxis.range"]
              /\ extent'.y = map_view["yaxis.range"]
        /\ map_view = <<>> => extent' = NationalExtent ]_vars

\* The lettered entries of the layer called name in a hover text, in order.
ItemsOf(text, name) ==
    SelectSeq(text, LAMBDA part : part.kind = "item" /\ part.layer = name)

\* C8: in every hover region, the lettered entries of a layer are lettered
\* consecutively from 'a' (code point 97) in the order shown.
C8_LetteredFromA ==
    \A i \in GroupOf("hover") :
        \A k \in 1..Len(uploaded_files) :
            LET items == ItemsOf(fig[i].text, uploaded_files[k].name)
            IN  \A n \in 1..Len(items) : items[n].chr = 97 + (n - 1)

\* C9: a layer with traces in the figure is drawn as filled polygons exactly
\* when every value of all of its rows parses as a number, and exactly when
\* its sidebar control is the color picker.
C9_NumericClassification ==
    \A k \in 1..Len(uploaded_files) :
        LET layer == uploaded_files[k]
            all_numeric == is_numeric(layer.data, layer.value_column,
                                      RowIndex(layer.data))
        IN  LayerTracesOf(layer.name) # {} =>
                /\ \A i \in LayerTracesOf(layer.name) :
                      fig[i].kind = "FilledPolygon" <=> all_numeric
                /\ \A i \in LayerTracesOf(layer.name) :
                      fig[i].kind = "FilledPolygon"
                          <=> controls[k] = "color_picker"

=============================================================================
